---- MODULE Spec2Model ----
(***************************************************************************)
(* data-shifter (src/src/main.rs): a command-line tool that writes, for    *)
(* each input file, a framed copy                                          *)
(*     "SHIFTED" ++ shift byte ++ name_len ++ name ++ (payload + shift)    *)
(* and restores such frames.  The model is the program as a state machine  *)
(* over a small file system: main() parses a command line, then shift()   *)
(* or restore() walks its arguments one at a time; a file is streamed in  *)
(* chunks through a BufReader and a BufWriter.                             *)
(*                                                                         *)
(* Bytes are the integers 0..255, strings and file contents are sequences  *)
(* of bytes, a file-system key is the sequence of a path's components     *)
(* from the root.                                                          *)
(***************************************************************************)
EXTENDS Integers, Sequences, FiniteSets, TLC

(***************************************************************************)
(* Bounds of the model                                                     *)
(***************************************************************************)
\* main.rs:74,147 allocate a 4096-byte scratch buffer; the model scales it.
BufferLen == 4
\* std's BufReader/BufWriter hold 8192 bytes (main.rs:122,123,156,218); scaled.
BufCapacity == 8
\* I/O errors the environment injects into one run.
MaxFaults == 1

(***************************************************************************)
(* Program constants                                                       *)
(***************************************************************************)
\* const MAGIC_NUM: &[u8; 7] = b"SHIFTED";
MAGIC_NUM == <<83, 72, 73, 70, 84, 69, 68>>
\* u8::MAX
U8_MAX == 255

\* ASCII codes used by paths.
SLASH == <<47>>
DOT == <<46>>
DOTDOT == <<46, 46>>
\* ".shift", the suffix of format!("{}.shift", ..)
SHIFT_EXT == <<46, 115, 104, 105, 102, 116>>
\* U+FFFD REPLACEMENT CHARACTER in UTF-8
REPLACEMENT == <<239, 191, 189>>

(***************************************************************************)
(* Sequences                                                               *)
(***************************************************************************)
Drop(s, n) == SubSeq(s, n + 1, Len(s))
Take(s, n) == SubSeq(s, 1, n)
Last(s) == s[Len(s)]
Front(s) == SubSeq(s, 1, Len(s) - 1)
Min(a, b) == IF a < b THEN a ELSE b

(***************************************************************************)
(* The payload transform (main.rs:138-140 and 225-227)                     *)
(***************************************************************************)
\* Faulty variants: the saturating operations in place of the wrapping ones.
saturating_add(b, r) == IF b + r > 255 THEN 255 ELSE b + r
saturating_sub(b, r) == IF b < r THEN 0 ELSE b - r

\* u8::wrapping_add
wrapping_add(b, r) == (b + r) % 256
\* u8::wrapping_sub
wrapping_sub(b, r) == (b + 256 - r) % 256

\* buffer[..num].iter_mut().for_each(|byte| *byte = wrapping_add(*byte, random))
EncodeChunk(buf, random) == [k \in 1..Len(buf) |-> wrapping_add(buf[k], random)]
\* buffer[..num].iter_mut().for_each(|byte| *byte = wrapping_sub(*byte, random))
DecodeChunk(buf, random) == [k \in 1..Len(buf) |-> wrapping_sub(buf[k], random)]

(***************************************************************************)
(* String::from_utf8_lossy / OsStr::to_string_lossy: every maximal invalid *)
(* subpart of the input becomes U+FFFD, valid sequences are kept.          *)
(***************************************************************************)
IsCont(b) == b >= 128 /\ b <= 191

\* The range the second byte of a sequence led by `b` must lie in.
SecondOk(b, c) ==
    CASE b = 224 -> c >= 160 /\ c <= 191
      [] b = 237 -> c >= 128 /\ c <= 159
      [] b = 240 -> c >= 144 /\ c <= 191
      [] b = 244 -> c >= 128 /\ c <= 143
      [] OTHER -> IsCont(c)

\* Length of the sequence a lead byte announces (0: not a lead byte).
SeqLen(b) ==
    CASE b < 128 -> 1
      [] b >= 194 /\ b <= 223 -> 2
      [] b >= 224 /\ b <= 239 -> 3
      [] b >= 240 /\ b <= 244 -> 4
      [] OTHER -> 0

\* One step at a lead byte that is not ASCII: the bytes emitted and the number
\* of input bytes consumed.
LossyStep(bs) ==
    LET b == bs[1]
        n == SeqLen(b)
        have == Len(bs)
    IN  IF n = 0 \/ have < 2 \/ ~SecondOk(b, bs[2])
             THEN [emit |-> REPLACEMENT, used |-> 1]
        ELSE IF n = 2 THEN [emit |-> Take(bs, 2), used |-> 2]
        ELSE IF have < 3 \/ ~IsCont(bs[3])
             THEN [emit |-> REPLACEMENT, used |-> 2]
        ELSE IF n = 3 THEN [emit |-> Take(bs, 3), used |-> 3]
        ELSE IF have < 4 \/ ~IsCont(bs[4])
             THEN [emit |-> REPLACEMENT, used |-> 3]
        ELSE [emit |-> Take(bs, 4), used |-> 4]

\* The ASCII run at the front is copied, then one step is taken.
RECURSIVE from_utf8_lossy(_)
from_utf8_lossy(bs) ==
    IF \A k \in 1..Len(bs) : bs[k] < 128 THEN bs
    ELSE LET j == CHOOSE i \in 1..Len(bs) :
                     bs[i] >= 128 /\ \A m \in 1..(i - 1) : bs[m] < 128
             st == LossyStep(Drop(bs, j - 1))
         IN  Take(bs, j - 1) \o st.emit \o from_utf8_lossy(Drop(bs, j - 1 + st.used))

(***************************************************************************)
(* std::path: components, file_name, join                                  *)
(***************************************************************************)
\* The segments of a path string between its '/' bytes (empty ones included).
RECURSIVE Segments(_)
Segments(p) ==
    IF \A k \in 1..Len(p) : <<p[k]>> # SLASH THEN <<p>>
    ELSE LET k == CHOOSE j \in 1..Len(p) :
                     <<p[j]>> = SLASH /\ \A m \in 1..(j - 1) : <<p[m]>> # SLASH
         IN  <<Take(p, k - 1)>> \o Segments(Drop(p, k))

SelectSeg(segs, keep(_, _)) ==
    LET RECURSIVE Sel(_)
        Sel(k) == IF k > Len(segs) THEN <<>>
                  ELSE IF keep(k, segs[k]) THEN <<segs[k]>> \o Sel(k + 1)
                  ELSE Sel(k + 1)
    IN  Sel(1)

has_root(p) == p # <<>> /\ <<p[1]>> = SLASH

\* Path::components, without the root: empty segments are dropped, and so is
\* every "." but a leading one of a relative path.
Components(p) ==
    LET Keep(k, seg) == seg # <<>> /\ (seg = DOT => (k = 1 /\ ~has_root(p)))
    IN  SelectSeg(Segments(p), Keep)

\* Option<T>
None == [some |-> FALSE, val |-> <<>>]
Some(v) == [some |-> TRUE, val |-> v]

\* Path::file_name: the last component when it is a normal one.
file_name(p) ==
    LET cs == Components(p)
    IN  IF cs = <<>> THEN None
        ELSE IF Last(cs) = DOTDOT \/ Last(cs) = DOT THEN None
        ELSE Some(Last(cs))

\* PathBuf::join: an absolute `name` replaces `dir`.
join(dir, name) ==
    IF has_root(name) THEN name
    ELSE IF dir = <<>> \/ <<Last(dir)>> = SLASH THEN dir \o name
    ELSE dir \o SLASH \o name

(***************************************************************************)
(* The file system the program runs on.  fs maps a key (the components of  *)
(* an absolute path) to a node: a directory, or a file with its bytes.     *)
(***************************************************************************)
DirNode == [dir |-> TRUE, data |-> <<>>]
FileNode(bytes) == [dir |-> FALSE, data |-> bytes]
Root == <<>>
NoKey == <<<<0>>>>

\* Path resolution from `cur`: every component is looked up in a directory.
RECURSIVE Walk(_, _, _)
Walk(f, segs, cur) ==
    IF segs = <<>> THEN [ok |-> TRUE, key |-> cur]
    ELSE IF cur \notin DOMAIN f \/ ~f[cur].dir THEN [ok |-> FALSE, key |-> NoKey]
    ELSE LET s == Head(segs)
             next == IF s = DOT THEN cur
                     ELSE IF s = DOTDOT THEN (IF cur = Root THEN cur ELSE Front(cur))
                     ELSE Append(cur, s)
         IN  Walk(f, Tail(segs), next)

NonEmptySegments(p) ==
    LET Keep(k, seg) == seg # <<>>
    IN  SelectSeg(Segments(p), Keep)

\* The key a path string names for a process whose working directory is cwd.
Resolve(f, cwd, p) ==
    IF p = <<>> \/ \E k \in 1..Len(p) : p[k] = 0 THEN [ok |-> FALSE, key |-> NoKey]
    ELSE LET r == Walk(f, NonEmptySegments(p), IF has_root(p) THEN Root ELSE cwd)
         IN  IF r.ok /\ <<Last(p)>> = SLASH /\ (r.key \notin DOMAIN f \/ ~f[r.key].dir)
             THEN [ok |-> FALSE, key |-> NoKey]
             ELSE r

\* File::open(&p): an existing file or directory opens for reading.
OpenRead(f, cwd, p) ==
    LET r == Resolve(f, cwd, p)
    IN  IF r.ok /\ r.key \in DOMAIN f THEN r ELSE [ok |-> FALSE, key |-> NoKey]

\* Faulty variant: the force branch taken whatever the force flag says.
OpenWriteTruncate(f, cwd, p, force) ==
    LET r == Resolve(f, cwd, p)
    IN  IF ~r.ok THEN [ok |-> FALSE, key |-> NoKey, fs |-> f]
        ELSE IF r.key \notin DOMAIN f
             THEN [ok |-> TRUE, key |-> r.key, fs |-> (r.key :> FileNode(<<>>)) @@ f]
        ELSE IF ~f[r.key].dir
             THEN [ok |-> TRUE, key |-> r.key,
                   fs |-> [f EXCEPT ![r.key] = FileNode(<<>>)]]
        ELSE [ok |-> FALSE, key |-> NoKey, fs |-> f]

\* OpenOptions::new().create(true).truncate(true).write(true).open(..) when
\* force, .create_new(true).write(true).open(..) otherwise.
OpenWrite(f, cwd, p, force) ==
    LET r == Resolve(f, cwd, p)
    IN  IF ~r.ok THEN [ok |-> FALSE, key |-> NoKey, fs |-> f]
        ELSE IF r.key \notin DOMAIN f
             THEN [ok |-> TRUE, key |-> r.key, fs |-> (r.key :> FileNode(<<>>)) @@ f]
        ELSE IF force /\ ~f[r.key].dir
             THEN [ok |-> TRUE, key |-> r.key,
                   fs |-> [f EXCEPT ![r.key] = FileNode(<<>>)]]
        ELSE [ok |-> FALSE, key |-> NoKey, fs |-> f]

\* std::fs::create_dir_all(&dir)
RECURSIVE MkdirWalk(_, _, _)
MkdirWalk(f, segs, cur) ==
    IF cur \in DOMAIN f /\ ~f[cur].dir THEN [ok |-> FALSE, fs |-> f]
    ELSE LET g == IF cur \in DOMAIN f THEN f ELSE (cur :> DirNode) @@ f
         IN  IF segs = <<>> THEN [ok |-> TRUE, fs |-> g]
             ELSE LET s == Head(segs)
                      next == IF s = DOT THEN cur
                              ELSE IF s = DOTDOT
                                   THEN (IF cur = Root THEN cur ELSE Front(cur))
                              ELSE Append(cur, s)
                  IN  MkdirWalk(g, Tail(segs), next)

create_dir_all(f, cwd, p) ==
    IF p = <<>> THEN [ok |-> TRUE, fs |-> f]
    ELSE MkdirWalk(f, NonEmptySegments(p), IF has_root(p) THEN Root ELSE cwd)

(***************************************************************************)
(* std::io::BufWriter over the destination.  A writer value is the bytes   *)
(* it still buffers (buf), the bytes it handed to the file during the      *)
(* current step (out) and whether a write failed (err).  devOk says        *)
(* whether the device accepts writes during the step.                      *)
(***************************************************************************)
NewWriter == [buf |-> <<>>, out |-> <<>>, err |-> FALSE]

\* BufWriter::flush_buf
flush_buf(w, devOk) ==
    IF w.buf = <<>> THEN w
    ELSE IF devOk THEN [w EXCEPT !.out = w.out \o w.buf, !.buf = <<>>]
    ELSE [w EXCEPT !.err = TRUE]

\* writer.write_all(data).unwrap(): the data is buffered when it fits, the
\* buffer is flushed first when it does not, and data of the buffer's capacity
\* or more goes straight to the file.  A writer that failed stays failed (the
\* unwrap has panicked).
write_all(w, data, devOk) ==
    IF w.err THEN w
    ELSE IF Len(data) < BufCapacity - Len(w.buf)
         THEN [w EXCEPT !.buf = w.buf \o data]
    ELSE LET f == IF Len(data) > BufCapacity - Len(w.buf) THEN flush_buf(w, devOk)
                  ELSE w
         IN  IF f.err THEN f
             ELSE IF Len(data) >= BufCapacity
                  THEN (IF devOk THEN [f EXCEPT !.out = f.out \o data]
                        ELSE [f EXCEPT !.err = TRUE])
             ELSE [f EXCEPT !.buf = f.buf \o data]

\* The end of the writer's scope (main.rs:143, 230, and every unwinding
\* panic): BufWriter's Drop flushes the buffer and discards the result.
drop_writer(w, devOk) ==
    LET f == flush_buf([w EXCEPT !.err = FALSE], devOk)
    IN  [buf |-> <<>>, out |-> f.out, err |-> w.err, lost |-> f.err]

(***************************************************************************)
(* std::io::BufReader over the source: pos is the file offset of the next  *)
(* byte the file will deliver, buf the bytes read ahead and not yet taken. *)
(***************************************************************************)
NewReader(key) == [key |-> key, pos |-> 0, buf |-> <<>>]

\* The bytes of the file from offset pos on (none when it has become shorter).
Rest(f, key, pos) ==
    IF pos >= Len(f[key].data) THEN <<>> ELSE Drop(f[key].data, pos)

\* The sizes one read(2) of at most BufCapacity bytes may return.
ReadSizes(f, rd) ==
    IF rd.buf # <<>> THEN {0}
    ELSE LET avail == Len(Rest(f, rd.key, rd.pos))
             most == Min(BufCapacity, avail)
         IN  IF avail = 0 THEN {0} ELSE 1..most

\* reader.read(&mut buffer): k is what the file returns when the reader's
\* buffer is empty and has to be filled; readOk is whether that read succeeds.
\* A directory never reads (EISDIR).
reader_read(f, rd, k, readOk) ==
    IF rd.buf # <<>>
    THEN LET n == Min(BufferLen, Len(rd.buf))
         IN  [err |-> FALSE, bytes |-> Take(rd.buf, n),
              rd |-> [rd EXCEPT !.buf = Drop(rd.buf, n)]]
    ELSE IF f[rd.key].dir \/ ~readOk THEN [err |-> TRUE, bytes |-> <<>>, rd |-> rd]
    ELSE LET got == Take(Rest(f, rd.key, rd.pos), k)
             n == Min(BufferLen, k)
         IN  [err |-> FALSE, bytes |-> Take(got, n),
              rd |-> [rd EXCEPT !.pos = rd.pos + k, !.buf = Drop(got, n)]]

\* reader.read_exact(&mut [0; n]) on a reader that has buffered nothing
\* beyond `at` bytes already taken: the next n bytes, or an error when the file
\* ends before them, cannot be read, or is a directory.
read_exact(f, key, at, n, readOk) ==
    LET rest == Rest(f, key, at)
    IN  IF f[key].dir \/ ~readOk \/ Len(rest) < n THEN [err |-> TRUE, bytes |-> <<>>]
        ELSE [err |-> FALSE, bytes |-> Take(rest, n)]

(***************************************************************************)
(* The environment: the files present when the tool is first invoked and   *)
(* the command lines it is invoked with.                                   *)
(***************************************************************************)
Rep(b, n) == [k \in 1..n |-> b]

\* Path components: "w", "d1", "d2", "o", "r", "a", "a.shift", "e", "g", "x", ...
W == <<119>>
D1 == <<100, 49>>
D2 == <<100, 50>>
O == <<111>>
R == <<114>>
A == <<97>>
E == <<101>>
G == <<103>>
K == <<107>>
Q == <<113>>
X == <<120>>
Z == <<122>>
S1 == <<115, 49>>
S2 == <<115, 50>>
S3 == <<115, 51>>
S4 == <<115, 52>>
S5 == <<115, 53>>
FA == <<102, 97>>
TU == <<116, 117>>
TA == <<116, 97>>
TB == <<116, 98>>
TD == <<116, 100>>
\* A base name one byte longer than a u8 can count, and the longest one it can.
LongName == Rep(110, U8_MAX + 1)
MaxName == Rep(109, U8_MAX)

\* The working directory of the process, as a key and as current_dir() gives it.
Cwd == <<W>>
CurrentDir == SLASH \o W

\* A payload longer than the BufWriter's capacity.
BigPayload == [k \in 1..(BufCapacity + 2) |-> 240 + k]

InitFs ==
    (Root :> DirNode) @@ (<<W>> :> DirNode)
    @@ (<<W, D1>> :> DirNode) @@ (<<W, D2>> :> DirNode)
    \* plain files; d1/a and d2/a share their base name
    @@ (<<W, D1, A>> :> FileNode(<<0, 1, 255>>))
    @@ (<<W, D2, A>> :> FileNode(<<>>))
    @@ (<<W, D1, A \o SHIFT_EXT>> :> FileNode(<<7>>))
    @@ (<<W, G>> :> FileNode(BigPayload))
    @@ (<<W, LongName>> :> FileNode(<<1>>))
    @@ (<<W, MaxName>> :> FileNode(<<2>>))
    \* s1: 5 bytes; s2: wrong magic; s3: no name_len byte; s4: name_len = 0;
    \* s5: name_len = 3 with one name byte
    @@ (<<W, S1>> :> FileNode(<<83, 72, 73, 70, 84>>))
    @@ (<<W, S2>> :> FileNode(<<83, 72, 73, 70, 84, 69, 88, 5, 1, 107, 9>>))
    @@ (<<W, S3>> :> FileNode(MAGIC_NUM \o <<5>>))
    @@ (<<W, S4>> :> FileNode(MAGIC_NUM \o <<5, 0, 9>>))
    @@ (<<W, S5>> :> FileNode(MAGIC_NUM \o <<5, 3, 107>>))
    \* z: shift byte 0, name "k"
    @@ (<<W, Z>> :> FileNode(MAGIC_NUM \o <<0, 1>> \o K \o <<5>>))
    \* tu: name "../e"; ta: name "/e"; tb: name 0xFF (not UTF-8)
    @@ (<<W, TU>> :> FileNode(MAGIC_NUM \o <<5, 4>> \o DOTDOT \o SLASH \o E \o <<6>>))
    @@ (<<W, TA>> :> FileNode(MAGIC_NUM \o <<5, 2>> \o SLASH \o E \o <<6>>))
    @@ (<<W, TB>> :> FileNode(MAGIC_NUM \o <<5, 1, 255>> \o <<6>>))
    \* td: name "d2", a directory of the working directory
    @@ (<<W, TD>> :> FileNode(MAGIC_NUM \o <<5, 2>> \o D2 \o <<6>>))
    \* d1/x: a frame that names itself; fa: a frame named "a" with a big payload
    @@ (<<W, D1, X>> :> FileNode(MAGIC_NUM \o <<5, 1>> \o X \o <<6, 7, 8>>))
    @@ (<<W, FA>> :> FileNode(MAGIC_NUM \o <<5, 1>> \o A \o BigPayload))

ShiftModes == {"--shift", "--force-shift"}
RestoreModes == {"--restore", "--force-restore"}

\* The optional first token: none, "d1", "o" (to be created), "d1/a" (a file).
Dirs == {None, Some(D1), Some(O), Some(D1 \o SLASH \o A)}

ShiftArgLists ==
    { << D1 \o SLASH \o A, D2 \o SLASH \o A >>,
      << D1 \o SLASH \o A, D1 \o SLASH \o A \o SHIFT_EXT >>,
      << Q, G >>,
      << DOTDOT, D1 \o SLASH \o A >>,
      << LongName, D1 \o SLASH \o A >>,
      << MaxName >>,
      << D2, D1 \o SLASH \o A >> }

RestoreArgLists ==
    { << S1, S2, S3, S4, S5, FA >>,
      << Q, D1 \o SLASH \o A, D2 >>,
      << Z, FA >>,
      << TU, TA >>,
      << TB, TD, D1 \o SLASH \o X >> }

\* The tool's invocations: shift and restore runs, a run without file
\* arguments, a run with the verb the usage text prints ("--recover").
CommandLines ==
    [mode : ShiftModes, dir : Dirs, args : ShiftArgLists]
    \cup [mode : RestoreModes, dir : Dirs, args : RestoreArgLists]
    \cup [mode : {"--shift"}, dir : {None}, args : {<<>>}]
    \cup [mode : {"--recover"}, dir : {Some(O)}, args : {<<Z>>}]

\* rng.gen_range(lo..=hi), sampled at its ends and at the value 5.
RngSamples == {0, 1, 5, 255}
gen_range(lo, hi) == {v \in RngSamples : lo <= v /\ v <= hi}

(***************************************************************************)
(* State                                                                   *)
(***************************************************************************)
VARIABLES
    fs,       \* the file system
    pc,       \* "start", "shift", "shift_loop", "restore", "restore_loop",
              \* "exit" (main returned), "panic" (an unwrap failed)
    panicAt,  \* the call whose unwrap panicked
    dir,      \* main's dir
    force,    \* the drivers' force parameter
    args,     \* the file arguments
    idx,      \* how many of them args.next() has handed out
    reader,   \* the BufReader of the file being streamed
    writer,   \* the BufWriter of the file being streamed: [key, buf]
    random,   \* the shift byte of the file being streamed
    stderr,   \* the diagnostics of the run: [arg, msg]
    \* history variables, read by the properties only
    phase,    \* "first": the first invocation; "back": the restore after it
    fs0,      \* the file system when the current invocation began
    cur,      \* what is known about the argument being streamed
    hist,     \* the outcome of every argument of the run handled so far
    made,     \* key -> [name, body, random] of the frames a shift wrote in full
    faults    \* the I/O errors the run has met

vars == <<fs, pc, panicAt, dir, force, args, idx, reader, writer, random, stderr,
          phase, fs0, cur, hist, made, faults>>

NoReader == NewReader(NoKey)
NoWriter == [key |-> NoKey, buf |-> <<>>]
NoOrigin == [some |-> FALSE, name |-> <<>>, body |-> <<>>, random |-> 0]
NoCur == [arg |-> 0, op |-> "none", outcome |-> "none", src |-> NoKey, dst |-> NoKey,
          dstPath |-> <<>>, random |-> 0, body |-> <<>>, clean |-> TRUE,
          origin |-> NoOrigin]

Init ==
    /\ fs = InitFs
    /\ pc = "start"
    /\ panicAt = "none"
    /\ dir = <<>>
    /\ force = FALSE
    /\ args = <<>>
    /\ idx = 0
    /\ reader = NoReader
    /\ writer = NoWriter
    /\ random = 0
    /\ stderr = <<>>
    /\ phase = "first"
    /\ fs0 = InitFs
    /\ cur = NoCur
    /\ hist = <<>>
    /\ made = <<>>
    /\ faults = 0

\* What a read or a write of the step may meet: success, or, while the run
\* has seen fewer than MaxFaults I/O errors, an error.
Luck == IF faults < MaxFaults THEN BOOLEAN ELSE {TRUE}

AppendTo(f, key, bytes) == [f EXCEPT ![key].data = @ \o bytes]
Forget(m, key) == [k \in DOMAIN m \ {key} |-> m[k]]

(***************************************************************************)
(* main (main.rs:18-70)                                                    *)
(***************************************************************************)
\* The paths the finished shift run wrote, in order: the arguments of the
\* restore invocation that may follow it.
RECURSIVE Outputs(_)
Outputs(h) ==
    IF h = <<>> THEN <<>>
    ELSE IF Head(h).op = "shift" /\ Head(h).outcome = "done"
         THEN <<Head(h).dstPath>> \o Outputs(Tail(h))
    ELSE Outputs(Tail(h))

RestoreBack ==
    IF Outputs(hist) = <<>> THEN {}
    ELSE [mode : {"--restore", "--force-restore"}, dir : {Some(R)},
          args : {Outputs(hist)}]

Run(cmd, ph) ==
    LET d == IF cmd.dir.some THEN cmd.dir.val ELSE CurrentDir
        mk == create_dir_all(fs, Cwd, d)
        known == cmd.mode \in {"--shift", "--restore", "--force-shift", "--force-restore"}
    IN  /\ phase' = ph
        /\ fs0' = fs
        /\ dir' = d
        /\ args' = cmd.args
        /\ force' = (cmd.mode \in {"--force-shift", "--force-restore"})
        /\ idx' = 0
        /\ stderr' = <<>>
        /\ hist' = <<>>
        /\ faults' = 0
        /\ UNCHANGED <<reader, writer, random, cur, made>>
        /\ IF cmd.args = <<>>
           THEN pc' = "exit" /\ UNCHANGED <<fs, panicAt>>
           ELSE IF ~mk.ok
           THEN pc' = "panic" /\ panicAt' = "create_dir_all" /\ UNCHANGED fs
           ELSE /\ fs' = mk.fs
                /\ UNCHANGED panicAt
                /\ pc' = IF ~known THEN "exit"
                         ELSE IF cmd.mode \in {"--shift", "--force-shift"} THEN "shift"
                         ELSE "restore"

Main ==
    \/ /\ pc = "start"
       /\ \E cmd \in CommandLines : Run(cmd, "first")
    \/ /\ pc = "exit"
       /\ phase = "first"
       /\ \E cmd \in RestoreBack : Run(cmd, "back")

(***************************************************************************)
(* What the drivers do with one argument                                   *)
(***************************************************************************)
\* Faulty variant: a skip that leaves the loop (break) instead of continuing it.
SkipBreak(msg, rec) ==
    /\ faults' = IF rec.clean THEN faults ELSE faults + 1
    /\ stderr' = Append(stderr, [arg |-> idx + 1, msg |-> msg])
    /\ hist' = Append(hist, [rec EXCEPT !.outcome = msg])
    /\ pc' = "exit"
    /\ UNCHANGED <<fs, panicAt, dir, force, args, reader, writer, random,
                   phase, fs0, cur, made>>

\* eprintln!(..); continue;
Skip(msg, rec) ==
    /\ faults' = IF rec.clean THEN faults ELSE faults + 1
    /\ stderr' = Append(stderr, [arg |-> idx + 1, msg |-> msg])
    /\ hist' = Append(hist, [rec EXCEPT !.outcome = msg])
    /\ UNCHANGED <<fs, pc, panicAt, dir, force, args, reader, writer, random,
                   phase, fs0, cur, made>>

\* A failed unwrap: the process unwinds and ends; f is the file system the
\* dropped writer leaves.
Panic(site, rec, f, m, n) ==
    /\ faults' = faults + n
    /\ pc' = "panic"
    /\ panicAt' = site
    /\ fs' = f
    /\ made' = m
    /\ hist' = Append(hist, [rec EXCEPT !.outcome = "panic"])
    /\ reader' = NoReader
    /\ writer' = NoWriter
    /\ cur' = NoCur
    /\ UNCHANGED <<dir, force, args, random, stderr, phase, fs0>>

\* The loop body's end (main.rs:143, 230): the writer goes out of scope.
Finish(rec, d, loopHead) ==
    LET done == [rec EXCEPT !.outcome = "done", !.clean = ~d.lost]
    IN  /\ fs' = AppendTo(fs, writer.key, d.out)
        /\ faults' = IF d.lost THEN faults + 1 ELSE faults
        /\ hist' = Append(hist, done)
        /\ made' = IF rec.op = "shift" /\ ~d.lost
                   THEN (writer.key :> [some |-> TRUE,
                                        name |-> Last(rec.src),
                                        body |-> rec.body,
                                        random |-> rec.random]) @@ made
                   ELSE made
        /\ pc' = loopHead
        /\ reader' = NoReader
        /\ writer' = NoWriter
        /\ cur' = NoCur
        /\ UNCHANGED <<panicAt, dir, force, args, idx, random, stderr, phase, fs0>>

\* A chunk went through write_all without an error.
Written(w) ==
    /\ fs' = AppendTo(fs, writer.key, w.out)
    /\ writer' = [writer EXCEPT !.buf = w.buf]
    /\ UNCHANGED <<pc, panicAt, dir, force, args, idx, random, stderr, phase, fs0,
                   cur, hist, made, faults>>

(***************************************************************************)
(* shift (main.rs:72-144)                                                  *)
(***************************************************************************)
\* name.to_string_lossy() of a name taken from a String argument.
to_string_lossy(name) == from_utf8_lossy(name)

\* main.rs:85
ShiftOutputPath(d, name) == join(d, to_string_lossy(name) \o SHIFT_EXT)

\* main.rs:125-131: the header, written through the BufWriter; the unwrap of
\* u8::try_from lies between the second and the third write.
HeaderStart(r, devOk) ==
    write_all(write_all(NewWriter, MAGIC_NUM, devOk), <<r>>, devOk)
try_from_fits(n) == n <= U8_MAX
HeaderEnd(w, original_name, devOk) ==
    write_all(write_all(w, <<Len(original_name)>>, devOk), original_name, devOk)

\* main.rs:75-131: one argument, up to the streaming loop.
ShiftFile(p, r, devOk) ==
    LET src == OpenRead(fs, Cwd, p)
        name == file_name(p)
        output_path == ShiftOutputPath(dir, name.val)
        dst == OpenWrite(fs, Cwd, output_path, force)
        original_name == to_string_lossy(name.val)
        w2 == HeaderStart(r, devOk)
        w4 == HeaderEnd(w2, original_name, devOk)
        rec == [NoCur EXCEPT !.arg = idx + 1, !.op = "shift"]
        opened == [rec EXCEPT !.src = src.key, !.dst = dst.key,
                              !.dstPath = output_path, !.random = r,
                              !.body = fs[src.key].data]
        m == Forget(made, dst.key)
    IN  IF ~src.ok THEN Skip("invalid", rec)
        ELSE IF ~name.some THEN Panic("file_name", [rec EXCEPT !.src = src.key], fs, made, 0)
        ELSE IF ~dst.ok
             THEN Skip(IF force THEN "open" ELSE "create", [rec EXCEPT !.src = src.key])
        ELSE IF w2.err
             THEN Panic("write", opened,
                        AppendTo(dst.fs, dst.key, drop_writer(w2, devOk).out), m, 1)
        ELSE IF ~try_from_fits(Len(original_name))
             THEN Panic("name_len", opened,
                        AppendTo(dst.fs, dst.key, drop_writer(w2, devOk).out), m,
                        IF devOk THEN 0 ELSE 1)
        ELSE IF w4.err
             THEN Panic("write", opened,
                        AppendTo(dst.fs, dst.key, drop_writer(w4, devOk).out), m, 1)
        ELSE /\ fs' = AppendTo(dst.fs, dst.key, w4.out)
             /\ made' = m
             /\ pc' = "shift_loop"
             /\ reader' = NewReader(src.key)
             /\ writer' = [key |-> dst.key, buf |-> w4.buf]
             /\ random' = r
             /\ cur' = opened
             /\ UNCHANGED <<panicAt, dir, force, args, stderr, phase, fs0, hist, faults>>

\* while let Some(p) = args.next() { .. }
ShiftNext ==
    /\ pc = "shift"
    /\ IF idx = Len(args)
       THEN /\ pc' = "exit"
            /\ UNCHANGED <<fs, panicAt, dir, force, args, idx, reader, writer, random,
                           stderr, phase, fs0, cur, hist, made, faults>>
       ELSE /\ idx' = idx + 1
            /\ \E r \in gen_range(1, U8_MAX), devOk \in Luck :
                   ShiftFile(args[idx + 1], r, devOk)

\* main.rs:133-142: one turn of the streaming loop.
ShiftLoop ==
    /\ pc = "shift_loop"
    /\ \E k \in ReadSizes(fs, reader), readOk \in Luck, devOk \in Luck :
          LET got == reader_read(fs, reader, k, readOk)
              w0 == [buf |-> writer.buf, out |-> <<>>, err |-> FALSE]
              w == write_all(w0, EncodeChunk(got.bytes, random), devOk)
          IN  IF got.err
              THEN /\ Panic("read", cur,
                            AppendTo(fs, writer.key, drop_writer(w0, devOk).out), made,
                            IF readOk THEN 0 ELSE 1)
                   /\ UNCHANGED idx
              ELSE IF got.bytes = <<>>
              THEN Finish(cur, drop_writer(w0, devOk), "shift")
              ELSE IF w.err
              THEN /\ Panic("write", cur,
                            AppendTo(fs, writer.key, drop_writer(w, devOk).out), made, 1)
                   /\ UNCHANGED idx
              ELSE Written(w) /\ reader' = got.rd

(***************************************************************************)
(* restore (main.rs:146-231)                                               *)
(***************************************************************************)
\* Faulty variant: the header checks without the one for name_len = 0.
parse_header_any_len(f, key, readOk) ==
    LET header == read_exact(f, key, 0, 8, readOk)
        len == read_exact(f, key, 8, 1, readOk)
        original_name_len == len.bytes[1]
        name == read_exact(f, key, 9, original_name_len, readOk)
        bad == [ok |-> FALSE, random |-> 0, name |-> <<>>]
    IN  IF header.err THEN bad
        ELSE IF Take(header.bytes, 7) # MAGIC_NUM THEN bad
        ELSE IF len.err THEN bad
        ELSE IF name.err THEN bad
        ELSE [ok |-> TRUE, random |-> header.bytes[8], name |-> name.bytes]

\* main.rs:157-181: the header checks, in the code's order.  ok means that
\* every check passed; random and name are the bytes read.
parse_header(f, key, readOk) ==
    LET header == read_exact(f, key, 0, 8, readOk)
        len == read_exact(f, key, 8, 1, readOk)
        original_name_len == len.bytes[1]
        name == read_exact(f, key, 9, original_name_len, readOk)
        bad == [ok |-> FALSE, random |-> 0, name |-> <<>>]
    IN  IF header.err THEN bad
        ELSE IF Take(header.bytes, 7) # MAGIC_NUM THEN bad
        ELSE IF len.err THEN bad
        ELSE IF original_name_len = 0 THEN bad
        ELSE IF name.err THEN bad
        ELSE [ok |-> TRUE, random |-> header.bytes[8], name |-> name.bytes]

\* Faulty variant: only the last component of the decoded name is used.
RestoreOutputPathSanitized(d, name) ==
    join(d, file_name(from_utf8_lossy(name)).val)

\* main.rs:182-183
RestoreOutputPath(d, name) == join(d, from_utf8_lossy(name))

\* main.rs:148-218: one argument, up to the streaming loop.  ahead is the
\* number of payload bytes the BufReader holds when the header has been read.
RestoreFile(p, readOk) ==
    LET src == OpenRead(fs, Cwd, p)
        h == parse_header(fs, src.key, readOk)
        output_path == RestoreOutputPath(dir, h.name)
        dst == OpenWrite(fs, Cwd, output_path, force)
        at == 9 + Len(h.name)
        rec == [NoCur EXCEPT !.arg = idx + 1, !.op = "restore"]
        opened == [rec EXCEPT !.src = src.key, !.dst = dst.key,
                              !.dstPath = output_path, !.random = h.random,
                              !.body = fs[src.key].data,
                              !.origin = IF src.key \in DOMAIN made
                                         THEN made[src.key] ELSE NoOrigin,
                              !.clean = readOk]
    IN  IF ~src.ok THEN Skip("invalid", rec)
        ELSE IF ~h.ok THEN Skip("invalid", [opened EXCEPT !.dst = NoKey, !.dstPath = <<>>])
        ELSE IF ~dst.ok
             THEN Skip(IF force THEN "open" ELSE "create", [opened EXCEPT !.dst = NoKey])
        ELSE \E ahead \in 0..Min(BufCapacity - 1, Len(Rest(fs, src.key, at))) :
             /\ fs' = dst.fs
             /\ made' = Forget(made, dst.key)
             /\ pc' = "restore_loop"
             /\ reader' = [key |-> src.key, pos |-> at + ahead,
                           buf |-> Take(Rest(fs, src.key, at), ahead)]
             /\ writer' = [key |-> dst.key, buf |-> <<>>]
             /\ random' = h.random
             /\ cur' = opened
             /\ UNCHANGED <<panicAt, dir, force, args, stderr, phase, fs0, hist, faults>>

RestoreNext ==
    /\ pc = "restore"
    /\ IF idx = Len(args)
       THEN /\ pc' = "exit"
            /\ UNCHANGED <<fs, panicAt, dir, force, args, idx, reader, writer, random,
                           stderr, phase, fs0, cur, hist, made, faults>>
       ELSE /\ idx' = idx + 1
            /\ \E readOk \in Luck : RestoreFile(args[idx + 1], readOk)

\* main.rs:220-229: one turn of the streaming loop.
RestoreLoop ==
    /\ pc = "restore_loop"
    /\ \E k \in ReadSizes(fs, reader), readOk \in Luck, devOk \in Luck :
          LET got == reader_read(fs, reader, k, readOk)
              w0 == [buf |-> writer.buf, out |-> <<>>, err |-> FALSE]
              w == write_all(w0, DecodeChunk(got.bytes, random), devOk)
          IN  IF got.err
              THEN /\ Panic("read", cur,
                            AppendTo(fs, writer.key, drop_writer(w0, devOk).out), made,
                            IF readOk THEN 0 ELSE 1)
                   /\ UNCHANGED idx
              ELSE IF got.bytes = <<>>
              THEN Finish(cur, drop_writer(w0, devOk), "restore")
              ELSE IF w.err
              THEN /\ Panic("write", cur,
                            AppendTo(fs, writer.key, drop_writer(w, devOk).out), made, 1)
                   /\ UNCHANGED idx
              ELSE Written(w) /\ reader' = got.rd

Next == Main \/ ShiftNext \/ ShiftLoop \/ RestoreNext \/ RestoreLoop

Spec == Init /\ [][Next]_vars

(***************************************************************************)
(* Properties                                                              *)
(***************************************************************************)
\* The frame the format prescribes for shift byte s, base name n, content b.
Frame(s, n, b) ==
    MAGIC_NUM \o <<s>> \o <<Len(n)>> \o n \o [k \in 1..Len(b) |-> (b[k] + s) % 256]

\* A file content whose header restore must reject.
Malformed(c) ==
    \/ Len(c) < 8
    \/ Take(c, 7) # MAGIC_NUM
    \/ Len(c) < 9
    \/ c[9] = 0
    \/ Len(c) < 9 + c[9]

\* The name bytes of a well-formed frame.
NameBytes(c) == SubSeq(c, 10, 9 + c[9])

Skips == {"invalid", "open", "create"}

\* The diagnostics a history of outcomes calls for: one line per skipped input.
RECURSIVE SkipLines(_)
SkipLines(h) ==
    IF h = <<>> THEN <<>>
    ELSE IF Head(h).outcome \in Skips
         THEN <<[arg |-> Head(h).arg, msg |-> Head(h).outcome]>> \o SkipLines(Tail(h))
    ELSE SkipLines(Tail(h))

\* The argument the drivers have just finished with, when it was processed in full.
JustDone(op) ==
    /\ pc \in {"shift", "restore", "exit"}
    /\ hist # <<>>
    /\ Last(hist).op = op
    /\ Last(hist).outcome = "done"

\* C1: Round trip. When restore has processed, without an I/O error, a file that
\* a shift wrote in full for content B and base name N (any sampled shift byte,
\* any read sizes), it did not call the file invalid, and when it opened a
\* destination, that destination is dir joined with N and holds exactly B.
C1_RoundTrip ==
    (/\ pc \in {"restore", "exit"}
     /\ hist # <<>>
     /\ Last(hist).op = "restore"
     /\ Last(hist).origin.some
     /\ Last(hist).clean)
    => LET r == Last(hist)
           o == r.origin
       IN  /\ r.outcome \in {"done", "open", "create"}
           /\ r.outcome = "done" =>
                 /\ r.dstPath = join(dir, o.name)
                 /\ Last(r.dst) = o.name
                 /\ ~fs[r.dst].dir
                 /\ fs[r.dst].data = o.body

\* C1 witness: the big payload, shifted and restored through several chunks.
C1_Witness ==
    /\ phase = "back"
    /\ JustDone("restore")
    /\ Last(hist).clean
    /\ Last(hist).origin.some
    /\ Last(hist).origin.body = BigPayload
    /\ fs[Last(hist).dst].data = BigPayload

\* C2: When shift has processed an input in full, the destination holds
\* "SHIFTED", a shift byte s in 1..255, the byte length of the base name N, N,
\* and every content byte plus s modulo 256: 9 + len(N) + len(B) bytes.
C2_ShiftFrame ==
    (JustDone("shift") /\ Last(hist).clean)
    => LET r == Last(hist)
           n == Last(r.src)
       IN  /\ r.random \in 1..255
           /\ fs[r.dst].data = Frame(r.random, n, r.body)
           /\ Len(fs[r.dst].data) = 9 + Len(n) + Len(r.body)

\* C2 witness: "a" holding 00 01 FF shifted by 5 gives payload 05 06 04, and
\* the next file of the run drew another shift byte.
C2_Witness ==
    /\ JustDone("shift")
    /\ Len(hist) = 2
    /\ hist[1].outcome = "done" /\ hist[1].clean /\ hist[2].clean
    /\ hist[1].random = 5 /\ hist[2].random = 255
    /\ hist[1].dst # hist[2].dst
    /\ fs[hist[1].dst].data = MAGIC_NUM \o <<5, 1, 97, 5, 6, 4>>

\* The destination path the driver computes for argument p, when it gets that
\* far without an I/O error: p opens, and it has a base name (shift) or a
\* well-formed header (restore).
ComputedDest(p) ==
    LET src == OpenRead(fs, Cwd, p)
    IN  IF ~src.ok THEN None
        ELSE IF pc = "shift"
             THEN (IF file_name(p).some
                   THEN Some(join(dir, file_name(p).val \o SHIFT_EXT)) ELSE None)
        ELSE IF fs[src.key].dir \/ Malformed(fs[src.key].data) THEN None
        ELSE Some(join(dir, from_utf8_lossy(NameBytes(fs[src.key].data))))

\* The driver takes its next argument, and no I/O error occurs in the step.
TakesArg ==
    /\ pc \in {"shift", "restore"}
    /\ idx < Len(args)
    /\ idx' = idx + 1
    /\ faults' = faults

\* A non-force step whose destination path already exists changes no file,
\* prints one "failed to create" line for the input and goes on.
C3_Step ==
    (/\ ~force
     /\ TakesArg
     /\ ComputedDest(args[idx + 1]).some
     /\ LET r == Resolve(fs, Cwd, ComputedDest(args[idx + 1]).val)
        IN  r.ok /\ r.key \in DOMAIN fs)
    => /\ fs' = fs
       /\ stderr' = Append(stderr, [arg |-> idx + 1, msg |-> "create"])
       /\ pc' = pc

\* In a non-force shift run, the frame written in full for an input stays as
\* it is for the rest of the run, and every later input with the same base
\* name is skipped with the collision diagnostic.
C3_FirstKept ==
    (~force /\ pc \in {"shift", "shift_loop", "exit", "panic"})
    => \A k \in 1..Len(hist) :
          (hist[k].op = "shift" /\ hist[k].outcome = "done" /\ hist[k].clean)
          => /\ fs[hist[k].dst].data
                    = Frame(hist[k].random, Last(hist[k].src), hist[k].body)
             /\ \A j \in (k + 1)..Len(hist) :
                    (hist[j].src # NoKey /\ Last(hist[j].src) = Last(hist[k].src))
                    => hist[j].outcome = "create"

\* C3: In non-force mode an existing destination path makes the operation on
\* that input fail with a diagnostic and leaves every file unchanged; of two
\* inputs with the same base name shifted into one directory the second is
\* skipped with the collision diagnostic and the first's output stays complete.
C3_NoClobber == []C3_FirstKept /\ [][C3_Step]_vars

\* C3 witness: d1/a was shifted in full, d2/a collided with its output.
C3_Witness ==
    /\ ~force
    /\ pc = "shift"
    /\ Len(hist) = 2
    /\ hist[1].outcome = "done" /\ hist[1].clean
    /\ hist[2].outcome = "create"
    /\ Last(hist[1].src) = Last(hist[2].src)
    /\ hist[1].src # hist[2].src
    /\ stderr = <<[arg |-> 2, msg |-> "create"]>>
    /\ fs[hist[1].dst].data = Frame(hist[1].random, A, <<0, 1, 255>>)

\* C4: Restore, force or not, creates, truncates and modifies no file for an
\* input whose header is malformed (fewer than 8 bytes, wrong magic, no
\* name_len byte, name_len = 0, fewer than name_len name bytes): the step
\* prints the "invalid file" line and goes on.
C4_MalformedNoOutput ==
    [][(/\ pc = "restore"
        /\ idx < Len(args)
        /\ LET src == OpenRead(fs, Cwd, args[idx + 1])
           IN  src.ok /\ ~fs[src.key].dir /\ Malformed(fs[src.key].data))
       => /\ fs' = fs
          /\ stderr' = Append(stderr, [arg |-> idx + 1, msg |-> "invalid"])
          /\ pc' = "restore"]_vars

\* C4 witness: a force restore has rejected s1..s5 and no file has changed.
C4_Witness ==
    /\ force
    /\ pc = "restore"
    /\ args[1] = S1
    /\ Len(hist) = 5
    /\ \A k \in 1..5 : hist[k].outcome = "invalid" /\ hist[k].clean
    /\ \A key \in DOMAIN fs : key \in DOMAIN fs0 => fs[key] = fs0[key]
    /\ \A key \in DOMAIN fs : ~fs[key].dir => key \in DOMAIN fs0

\* C5: Arguments are handled one at a time in command-line order; every
\* skipped input has exactly one diagnostic line and no other input has one;
\* and a run never ends at a skipped input while arguments remain.
C5_SkipAndContinue ==
    /\ \A k \in 1..Len(hist) : hist[k].arg = k
    /\ idx = Len(hist) + (IF pc \in {"shift_loop", "restore_loop"} THEN 1 ELSE 0)
    /\ stderr = SkipLines(hist)
    /\ (pc \in {"exit", "panic"} /\ hist # <<>> /\ Last(hist).outcome \in Skips)
       => idx = Len(args)

\* C5 witness: five inputs skipped, each with its line, and the sixth restored.
C5_Witness ==
    /\ JustDone("restore")
    /\ Len(hist) = 6
    /\ Len(stderr) = 5
    /\ \A k \in 1..5 : hist[k].outcome \in Skips /\ stderr[k].arg = k

\* C6 (as claimed): a run ends early only by an I/O failure in mid-stream or
\* by a setup failure.
C6_OnlyIoAborts ==
    pc = "panic" => panicAt \in {"read", "write", "create_dir_all"}

\* C7 (as claimed): no input counts as processed when a write to its
\* destination failed.
C7_WriteFailureAborts ==
    \A k \in 1..Len(hist) : hist[k].outcome = "done" => hist[k].clean

\* C8 (as claimed): every frame restore accepts (it opened a destination and
\* wrote the output, without an I/O error) has the magic, a name_len in 1..255
\* and a shift byte in 1..255.
C8_AcceptedHeaderValid ==
    \A k \in 1..Len(hist) :
        (hist[k].op = "restore" /\ hist[k].outcome = "done" /\ hist[k].clean)
        => LET c == hist[k].body
           IN  /\ ~Malformed(c)
               /\ c[9] \in 1..255
               /\ c[8] \in 1..255

\* C9: For an input with a well-formed header restore opens, under the
\* overwrite policy, exactly dir joined with the leniently decoded name: the
\* name is neither rejected nor altered, whatever separators, root or ".."
\* it holds, and a failure to open is the file system's.
C9_VerbatimName ==
    [][(/\ pc = "restore"
        /\ TakesArg
        /\ ComputedDest(args[idx + 1]).some)
       => LET path == ComputedDest(args[idx + 1]).val
              o == OpenWrite(fs, Cwd, path, force)
          IN  IF o.ok
              THEN /\ pc' = "restore_loop"
                   /\ cur'.dstPath = path
                   /\ writer'.key = o.key
                   /\ fs' = o.fs
              ELSE /\ pc' = "restore"
                   /\ fs' = fs
                   /\ Last(stderr').msg \in {"open", "create"}]_vars

\* C9 witness: restored into "o", the frame named "../e" has become /w/e and
\* the frame named "/e" has become /e.
C9_Witness ==
    /\ pc = "exit"
    /\ dir = O
    /\ args = <<TU, TA>>
    /\ hist[1].dst = <<W, E>> /\ hist[1].outcome = "done"
    /\ hist[2].dst = <<E>> /\ hist[2].outcome = "done"
    /\ fs[<<W, E>>].data = <<1>>
    /\ fs[<<E>>].data = <<1>>

\* The input files of the run: the arguments that name a file when it begins.
InputKeys ==
    {key \in DOMAIN fs0 :
        /\ ~fs0[key].dir
        /\ \E k \in 1..Len(args) : Resolve(fs0, Cwd, args[k]) = [ok |-> TRUE, key |-> key]}

\* The destinations the run has opened so far.
OpenedKeys ==
    {hist[k].dst : k \in 1..Len(hist)} \cup {cur.dst}

\* C10 (as claimed): no run changes the content of one of its input files
\* (stated for the runs that meet no I/O error).
C10_InputsUnchanged ==
    faults = 0 => \A key \in InputKeys : fs[key] = fs0[key]

\* C10 (amended): a run changes the content of one of its input files only in
\* force mode, and only when the destination it opened for some argument is
\* that file.
C10_OnlyForceClobbers ==
    \A key \in InputKeys :
        fs[key] # fs0[key] => (force /\ key \in OpenedKeys)

\* C10 witness: a force shift of d1/a and d1/a.shift into d1 has replaced the
\* input d1/a.shift.
C10_Witness ==
    /\ force
    /\ pc = "exit"
    /\ <<W, D1, A \o SHIFT_EXT>> \in InputKeys
    /\ fs[<<W, D1, A \o SHIFT_EXT>>] # fs0[<<W, D1, A \o SHIFT_EXT>>]

====
